---- MODULE Spec2Model ----
(***************************************************************************)
(* Model of laser_merger2 (src/src/laser_merger2.cpp): the two ingestion   *)
(* callbacks, the fusion loop laser_merge and the conversions it calls.    *)
(*                                                                         *)
(* Numbers.  Lengths are integers.  An angle is an integer too: the value  *)
(* 2k is exactly k quarter turns, the value 2k+1 is any angle strictly     *)
(* between k and k+1 quarter turns.  Every configured angle (scan          *)
(* angle_min, angle_increment, min_angle, max_angle, yaw) is a whole       *)
(* number of quarter turns, so sin and cos are exact and every comparison  *)
(* and every bin index of the code is computed exactly.  Points are        *)
(* lattice points whose planar norm is an integer, so hypot is exact.     *)
(*                                                                         *)
(* The message iterators and field modifiers of sensor_msgs and the        *)
(* transform services (tf2, pcl_ros) are collaborators: a lookup either    *)
(* succeeds with the frame's transform or fails, nothing else.             *)
(***************************************************************************)
EXTENDS Integers, Sequences, FiniteSets, TLC

\* ------------------------------------------------------------ bounds
\* Largest timestamp a message carries.
MaxStamp == 2
\* Longest ranges array of a scan message in the conversion specification.
MaxSamples == 3
\* Largest number of fused points handed to the projections in SpecProj.
MaxPoints == 2
\* Longest list of topic names given to the constructor in SpecInit.
MaxTopics == 2

\* std::numeric_limits<double>::infinity(): above every range of the model.
Infinity == 1000000

\* ------------------------------------------------------------ geometry
Abs(n) == IF n < 0 THEN -n ELSE n

\* std::cos / std::sin of a whole number of quarter turns (angle value 2k).
Cos(a) == CASE (a \div 2) % 4 = 0 -> 1
            [] (a \div 2) % 4 = 1 -> 0
            [] (a \div 2) % 4 = 2 -> -1
            [] OTHER -> 0

Sin(a) == CASE (a \div 2) % 4 = 0 -> 0
            [] (a \div 2) % 4 = 1 -> 1
            [] (a \div 2) % 4 = 2 -> 0
            [] OTHER -> -1

\* hypot(x, y), exact on the lattice points of the model.
Hypot(x, y) == CHOOSE r \in 0..(Abs(x) + Abs(y)) : r * r = x * x + y * y

\* atan2(y, x) in (-pi, pi] as an angle value.
Atan2(y, x) ==
    CASE y = 0 /\ x >= 0 -> 0
      [] y = 0 /\ x < 0  -> 4
      [] y > 0 /\ x > 0  -> 1
      [] y > 0 /\ x = 0  -> 2
      [] y > 0 /\ x < 0  -> 3
      [] y < 0 /\ x > 0  -> -1
      [] y < 0 /\ x = 0  -> -2
      [] OTHER           -> -3

\* A 4x4 matrix is a tuple of four rows; a column vector a tuple of four.
MatMul(A, B) ==
    [i \in 1..4 |-> [j \in 1..4 |->
        A[i][1] * B[1][j] + A[i][2] * B[2][j] + A[i][3] * B[3][j] + A[i][4] * B[4][j]]]

MatVec(A, v) ==
    [i \in 1..4 |-> A[i][1] * v[1] + A[i][2] * v[2] + A[i][3] * v[3] + A[i][4] * v[4]]

Rotate3Z(rad) ==
    << << Cos(rad), -1 * Sin(rad), 0, 0 >>,
       << Sin(rad), Cos(rad),      0, 0 >>,
       << 0,        0,             1, 0 >>,
       << 0,        0,             0, 1 >> >>

\* trans = [yaw, x, y, z]: the yaw of the rotation (roll and pitch are
\* dropped by the code) and the translation.
ConvertTransMatrix(trans) ==
    << << Cos(trans.yaw), -1 * Sin(trans.yaw), 0, trans.x >>,
       << Sin(trans.yaw), Cos(trans.yaw),      0, trans.y >>,
       << 0,              0,                   1, trans.z >>,
       << 0,              0,                   0, 1 >> >>

\* ------------------------------------------------------------ collaborators
ScanFrames == {"A", "B"}
CloudFrames == {"C"}

\* The transform from each sensor frame to the target frame, when the
\* lookup succeeds.
SensorToBase(frame) ==
    CASE frame = "A" -> [yaw |-> 0, x |-> 0, y |-> 0, z |-> 0]
      [] frame = "B" -> [yaw |-> 2, x |-> 0, y |-> 1, z |-> 1]
      [] OTHER       -> [yaw |-> 4, x |-> 0, y |-> 0, z |-> 2]

\* tf2_->lookupTransform: <<transform>>, or <<>> when it throws
\* tf2::TransformException.
lookupTransform(frame, available) ==
    IF available THEN << SensorToBase(frame) >> ELSE << >>

\* pcl_ros::transformPointCloud applied to one point of the cloud.
TransformPoint(trans, p) ==
    LET v == MatVec(ConvertTransMatrix(trans), << p.x, p.y, p.z, 1 >>)
    IN  [x |-> v[1], y |-> v[2], z |-> v[3], i |-> p.i]

\* ------------------------------------------------------------ conversions
\* SCAN_POINT_t: intensity is an optional, <<>> or <<value>>.
ScanPoint(x, y, z, intensity) == [x |-> x, y |-> y, z |-> z, intensity |-> intensity]

\* The range gate of scantoPointXYZ: TRUE when the sample is skipped.
NoMeasurementLax(scan, i) ==
    scan.ranges[i] < scan.range_min \/ scan.ranges[i] > scan.range_max

NoMeasurement(scan, i) ==
    scan.ranges[i] <= scan.range_min \/ scan.ranges[i] >= scan.range_max

\* The loop of scantoPointXYZ from sample i (1-based here, i - 1 in the
\* code) on, with the points gathered so far.
RECURSIVE ScanLoop(_, _, _, _)
ScanLoop(scan, T, i, points) ==
    IF i > Len(scan.ranges) THEN points
    ELSE IF NoMeasurement(scan, i) THEN ScanLoop(scan, T, i + 1, points)
    ELSE
        LET has_intensity == Len(scan.intensities) = Len(scan.ranges)
            scanRange == << scan.ranges[i], 0, 0, 1 >>
            scanPos == MatVec(MatMul(T, Rotate3Z(scan.angle_min + (i - 1) * scan.angle_increment)),
                              scanRange)
            point == ScanPoint(scanPos[1], scanPos[2], scanPos[3],
                               IF has_intensity THEN << scan.intensities[i] >> ELSE << >>)
        IN  ScanLoop(scan, T, i + 1, Append(points, point))

\* scantoPointXYZ without the return of its catch block: the conversion
\* goes on with the default-constructed transform.
scantoPointXYZNoReturn(scan, lookup) ==
    ScanLoop(scan,
             ConvertTransMatrix(IF lookup = << >> THEN [yaw |-> 0, x |-> 0, y |-> 0, z |-> 0]
                                ELSE lookup[1]),
             1, << >>)

scantoPointXYZ(scan, lookup) ==
    IF lookup = << >> THEN << >>
    ELSE ScanLoop(scan, ConvertTransMatrix(lookup[1]), 1, << >>)

\* pointCloudtoPointXYZ: lookup as for scantoPointXYZ (transformPointCloud
\* returns false when the transform is not available).
RECURSIVE CloudLoop(_, _, _, _)
CloudLoop(cloud, trans, k, points) ==
    IF k > Len(cloud.data) THEN points
    ELSE
        LET has_intensity == "intensity" \in cloud.fields
            q == TransformPoint(trans, cloud.data[k])
            point == ScanPoint(q.x, q.y, q.z, IF has_intensity THEN << q.i >> ELSE << >>)
        IN  CloudLoop(cloud, trans, k + 1, Append(points, point))

pointCloudtoPointXYZ(cloud, lookup) ==
    IF lookup = << >> THEN << >>
    ELSE CloudLoop(cloud, lookup[1], 1, << >>)

\* ------------------------------------------------------------ projections
\* The fill loop of ConvertPointCloud2 from point i on: the data written
\* so far, or the exception of std::optional::value() on an empty optional.
RECURSIVE CloudFill(_, _, _, _)
CloudFill(points, has_intensity, i, data) ==
    IF i > Len(points) THEN [fault |-> "none", data |-> data]
    ELSE IF has_intensity /\ points[i].intensity = << >>
         THEN [fault |-> "bad_optional_access", data |-> data]
    ELSE CloudFill(points, has_intensity, i + 1,
                   Append(data, ScanPoint(points[i].x, points[i].y, points[i].z,
                                          IF has_intensity THEN points[i].intensity ELSE << >>)))

\* ConvertPointCloud2(points) with laserTime = stamp: the fault that ends
\* it, if any, and the messages handed to pclPub_ (none or one).
ConvertPointCloud2(points, stamp) ==
    IF points = << >> THEN [fault |-> "none", published |-> << >>]
    ELSE
        LET has_intensity == points[1].intensity # << >>
            filled == CloudFill(points, has_intensity, 1, << >>)
        IN  IF filled.fault # "none"
            THEN [fault |-> filled.fault, published |-> << >>]
            ELSE [fault |-> "none",
                  published |-> << [stamp |-> stamp,
                                    width |-> Len(points),
                                    has_intensity |-> has_intensity,
                                    data |-> filled.data] >>]

\* uint32_t ranges_size = std::ceil((angle_max - angle_min) / angle_increment)
RangesSize(c) ==
    (c.max_angle - c.min_angle + c.angle_increment - 1) \div c.angle_increment

\* The value every bin starts with.
FillValue(c) == IF c.use_inf THEN Infinity ELSE c.max_range + c.inf_epsilon

\* The gate of ConvertLaserScan: TRUE when the point is skipped.
OutOfAngles(c, range, angle) == angle < c.min_angle \/ angle > c.max_angle

OutOfGate(c, range, angle) ==
    range < c.min_range \/ range > c.max_range \/ angle < c.min_angle \/ angle > c.max_angle

\* int index = (angle - angle_min) / angle_increment, for an in-gate point
\* (the quotient is not negative there, so truncation is the floor).
BinIndex(c, angle) == (angle - c.min_angle) \div c.angle_increment

\* ranges[index] after the comparison of lines 327-330 (index is 0-based).
RangeUpdateLast(ranges, index, range) == [ranges EXCEPT ![index + 1] = range]

RangeUpdate(ranges, index, range) ==
    IF range < ranges[index + 1] THEN [ranges EXCEPT ![index + 1] = range] ELSE ranges

\* intensities[index] after lines 332-333.
IntensityUpdate(intensities, index, value) == [intensities EXCEPT ![index + 1] = value]

\* The loop of ConvertLaserScan from point i on.  An index past the end of
\* the arrays is undefined behaviour; ub is what the build makes of it:
\* "crash" (the process dies) or "stray" (the accesses land outside both
\* arrays, which stay as they are).
RECURSIVE ScanFill(_, _, _, _, _, _, _)
ScanFill(points, c, has_intensity, ub, i, ranges, intensities) ==
    IF i > Len(points) THEN [fault |-> "none", ranges |-> ranges, intensities |-> intensities]
    ELSE
        LET range == Hypot(points[i].x, points[i].y)
            angle == Atan2(points[i].y, points[i].x)
            index == BinIndex(c, angle)
        IN  IF OutOfGate(c, range, angle)
            THEN ScanFill(points, c, has_intensity, ub, i + 1, ranges, intensities)
            ELSE IF index >= Len(ranges)
            THEN IF ub = "crash"
                 THEN [fault |-> "out_of_bounds", ranges |-> ranges, intensities |-> intensities]
                 ELSE IF has_intensity /\ points[i].intensity = << >>
                 THEN [fault |-> "bad_optional_access", ranges |-> ranges, intensities |-> intensities]
                 ELSE ScanFill(points, c, has_intensity, ub, i + 1, ranges, intensities)
            ELSE IF has_intensity /\ points[i].intensity = << >>
            THEN [fault |-> "bad_optional_access",
                  ranges |-> RangeUpdate(ranges, index, range), intensities |-> intensities]
            ELSE ScanFill(points, c, has_intensity, ub, i + 1,
                          RangeUpdate(ranges, index, range),
                          IF has_intensity
                          THEN IntensityUpdate(intensities, index, points[i].intensity[1])
                          ELSE intensities)

\* ConvertLaserScan(points) with laserTime = stamp under configuration c.
ConvertLaserScan(points, stamp, c, ub) ==
    IF points = << >> THEN [fault |-> "none", published |-> << >>]
    ELSE
        LET ranges_size == RangesSize(c)
            has_intensity == points[1].intensity # << >>
            filled == ScanFill(points, c, has_intensity, ub, 1,
                               [k \in 1..ranges_size |-> FillValue(c)],
                               IF has_intensity THEN [k \in 1..ranges_size |-> 0] ELSE << >>)
        IN  IF filled.fault # "none"
            THEN [fault |-> filled.fault, published |-> << >>]
            ELSE [fault |-> "none",
                  published |-> << [stamp |-> stamp,
                                    ranges |-> filled.ranges,
                                    intensities |-> filled.intensities] >>]

\* ------------------------------------------------------------ inputs
\* The output scan geometry and fill policy read by the constructor.
\* Wide reaches past pi as the defaults do (max_angle 3.141592654 > pi),
\* Half spans a whole number of bins, Uneven does not and has the shortest
\* max_range.
Wide == [min_angle |-> -4, max_angle |-> 6, angle_increment |-> 2,
         min_range |-> 6, max_range |-> 3000, inf_epsilon |-> 100, use_inf |-> TRUE]

Half == [min_angle |-> -2, max_angle |-> 2, angle_increment |-> 2,
         min_range |-> 6, max_range |-> 3000, inf_epsilon |-> 100, use_inf |-> FALSE]

Uneven == [min_angle |-> -4, max_angle |-> 2, angle_increment |-> 4,
           min_range |-> 6, max_range |-> 300, inf_epsilon |-> 0, use_inf |-> FALSE]

Configs == {Wide, Half, Uneven}

Stamps == 1..MaxStamp

\* sensor_msgs::msg::LaserScan of a frame (lengths in centimetres).  The
\* rays of A point along -y, +x, +y, ...; those of B along +x, -x, ...
LaserScan(frame, stamp, ranges, intensities) ==
    [frame_id |-> frame, stamp |-> stamp,
     angle_min |-> IF frame = "A" THEN -2 ELSE 0,
     angle_increment |-> IF frame = "A" THEN 2 ELSE 4,
     range_min |-> 6, range_max |-> 3000,
     ranges |-> ranges, intensities |-> intensities]

\* sensor_msgs::msg::PointCloud2: its field names and its points.
PointCloud2(frame, stamp, fields, data) ==
    [frame_id |-> frame, stamp |-> stamp, fields |-> fields, data |-> data]

\* What each sensor of the concurrent specification sends: A carries
\* intensity, B does not, the cloud of C has one point with intensity.
ScanBodies(frame) ==
    IF frame = "A"
    THEN { [ranges |-> << 100 >>, intensities |-> << 7 >>] }
    ELSE { [ranges |-> << 149 >>, intensities |-> << >>] }

CloudBodies ==
    { [fields |-> {"x", "y", "z", "intensity"},
       data |-> << [x |-> -200, y |-> -150, z |-> 0, i |-> 9] >>] }

ScanMsgs ==
    { LaserScan(f, t, b.ranges, b.intensities) : f \in ScanFrames, t \in Stamps,
                                                  b \in ScanBodies("A") \cup ScanBodies("B") }

SensorScanMsgs ==
    { m \in ScanMsgs : [ranges |-> m.ranges, intensities |-> m.intensities] \in ScanBodies(m.frame_id) }

CloudMsgs ==
    { PointCloud2(f, t, b.fields, b.data) : f \in CloudFrames, t \in Stamps, b \in CloudBodies }

\* ------------------------------------------------------------ state
VARIABLES
    cfg,              \* the parameters read by the constructor
    scanBuffer,       \* frame -> <<>> or <<LaserScan>>
    pointCloudBuffer, \* frame -> <<>> or <<PointCloud2>>
    laserTime,        \* stamp of the last message received (0: none yet)
    nodeMutex_,       \* "free", "merge" or "callback"
    cb,               \* the callback waiting for nodeMutex_: <<>> or <<[kind, msg]>>
    ok,               \* rclcpp::ok(context)
    alive_,           \* the atomic flag of the loop condition
    pc,               \* where the fusion thread is
    todo,             \* frames of the buffer under iteration not yet visited
    conv,             \* the frame being converted: <<>> or <<frame>>
    points,           \* the accumulator of the current iteration
    fault,            \* what killed the process: "none" or the fault
    cloudOut,         \* clouds published by the current iteration
    scanOut,          \* scans published by the current iteration
    gathered,         \* history: a conversion of this iteration returned a point
    lastScan,         \* history: frame -> last scan received since the last clear
    lastCloud,        \* history: frame -> last cloud received since the last clear
    visited,          \* history: this iteration converted a source
    replaced,         \* history: an arrival replaced another message since the last clear
    observe,          \* history switch: record the sources of the iteration
    sources,          \* history: the sources converted by this iteration
    converted,        \* history: kind -> frame -> conversions of the message in the slot
    topics,           \* the parameters scan_topics and point_cloud_topics
    subs,             \* laser_sub and point_cloud_sub: the topics subscribed to
    life              \* the node: "constructing", "failed", "running", "joining", "destroyed"

vars == << cfg, scanBuffer, pointCloudBuffer, laserTime, nodeMutex_, cb, ok, alive_,
           pc, todo, conv, points, fault, cloudOut, scanOut, gathered,
           lastScan, lastCloud, visited, replaced, observe, sources, converted,
           topics, subs, life >>

config == << cfg, observe >>
node == << topics, subs, life >>
buffers == << scanBuffer, pointCloudBuffer, laserTime, lastScan, lastCloud, replaced >>
history == << gathered, visited, sources, converted >>
outputs == << cloudOut, scanOut, fault >>

EmptySlots(frames) == [f \in frames |-> << >>]

\* No slot holds a message that has been converted.
NotConverted == [scan |-> [f \in ScanFrames |-> 0], cloud |-> [f \in CloudFrames |-> 0]]

\* The defaults of the parameters scan_topics and point_cloud_topics.
DefaultTopics ==
    [scan_topics |-> << "/sick_s30b/laser/scan0", "/sick_s30b/laser/scan1" >>,
     point_cloud_topics |-> << "/sick_s30b/laser/points0", "/sick_s30b/laser/points1" >>]

\* The subscription loops of the constructor: one subscription per topic
\* of the list, empty names skipped.
SubscribeAll(topic_list) == topic_list

Subscribe(topic_list) ==
    LET Named(topic) == topic # ""
    IN  SelectSeq(topic_list, Named)

\* The entries a range-for over the buffer visits.
PopulatedButB(buffer) == { f \in DOMAIN buffer : buffer[f] # << >> /\ f # "B" }

Populated(buffer) == { f \in DOMAIN buffer : buffer[f] # << >> }

InitCommon ==
    /\ nodeMutex_ = "free"
    /\ cb = << >>
    /\ ok = TRUE
    /\ alive_ = TRUE
    /\ todo = {}
    /\ conv = << >>
    /\ points = << >>
    /\ fault = "none"
    /\ cloudOut = << >>
    /\ scanOut = << >>
    /\ gathered = FALSE
    /\ visited = FALSE
    /\ replaced = FALSE
    /\ sources = << >>
    /\ converted = NotConverted
    /\ topics = DefaultTopics
    /\ subs = [laser_sub |-> Subscribe(topics.scan_topics),
               point_cloud_sub |-> Subscribe(topics.point_cloud_topics)]
    /\ life = "running"

\* The node after its constructor: empty buffers, the fusion thread at the
\* top of its loop.
Init ==
    /\ InitCommon
    /\ cfg \in {Wide, Half}
    /\ observe = FALSE
    /\ scanBuffer = EmptySlots(ScanFrames)
    /\ pointCloudBuffer = EmptySlots(CloudFrames)
    /\ lastScan = EmptySlots(ScanFrames)
    /\ lastCloud = EmptySlots(CloudFrames)
    /\ laserTime = 0
    /\ pc = "idle"

\* ------------------------------------------------------------ callbacks
\* std::map::operator[] assignment: the entry of the key is replaced.
KeepNewest(current, msg) == IF msg.stamp > current THEN msg.stamp ELSE current

\* laserTime = msg->header.stamp
SetTime(current, msg) == msg.stamp

KeepFirst(buffer, key, msg) ==
    IF buffer[key] = << >> THEN [buffer EXCEPT ![key] = << msg >>] ELSE buffer

Store(buffer, key, msg) == [buffer EXCEPT ![key] = << msg >>]

\* The transport invokes the callback of a subscription with a message;
\* the callback goes for the lock.
Arrive(kind, msg) ==
    /\ pc # "dead"
    /\ life \in {"running", "joining"}
    /\ IF kind = "scan" THEN subs.laser_sub # << >> ELSE subs.point_cloud_sub # << >>
    /\ cb = << >>
    /\ cb' = << [kind |-> kind, msg |-> msg] >>
    /\ UNCHANGED << config, node, buffers, nodeMutex_, ok, alive_, pc, todo, conv, points,
                    outputs, history >>

\* scanCallback from the lock to its release.
scanCallback ==
    /\ pc # "dead"
    /\ cb # << >> /\ cb[1].kind = "scan"
    /\ nodeMutex_ = "free"
    /\ laserTime' = SetTime(laserTime, cb[1].msg)
    /\ scanBuffer' = Store(scanBuffer, cb[1].msg.frame_id, cb[1].msg)
    /\ converted' = [converted EXCEPT !.scan[cb[1].msg.frame_id] = 0]
    /\ lastScan' = [lastScan EXCEPT ![cb[1].msg.frame_id] = << cb[1].msg >>]
    /\ replaced' = (replaced \/ scanBuffer[cb[1].msg.frame_id] \notin {<< >>, << cb[1].msg >>})
    /\ cb' = << >>
    /\ UNCHANGED << config, node, pointCloudBuffer, lastCloud, nodeMutex_, ok, alive_, pc, todo,
                    conv, points, outputs, gathered, visited, sources >>

\* pointCloudCallback from the lock to its release.
pointCloudCallback ==
    /\ pc # "dead"
    /\ cb # << >> /\ cb[1].kind = "cloud"
    /\ nodeMutex_ = "free"
    /\ laserTime' = SetTime(laserTime, cb[1].msg)
    /\ pointCloudBuffer' = Store(pointCloudBuffer, cb[1].msg.frame_id, cb[1].msg)
    /\ converted' = [converted EXCEPT !.cloud[cb[1].msg.frame_id] = 0]
    /\ lastCloud' = [lastCloud EXCEPT ![cb[1].msg.frame_id] = << cb[1].msg >>]
    /\ replaced' = (replaced \/ pointCloudBuffer[cb[1].msg.frame_id] \notin {<< >>, << cb[1].msg >>})
    /\ cb' = << >>
    /\ UNCHANGED << config, node, scanBuffer, lastScan, nodeMutex_, ok, alive_, pc, todo,
                    conv, points, outputs, gathered, visited, sources >>

\* rclcpp shuts the context down.
Shutdown ==
    /\ pc # "dead"
    /\ ok
    /\ ok' = FALSE
    /\ UNCHANGED << config, node, buffers, nodeMutex_, cb, alive_, pc, todo, conv, points,
                    outputs, history >>

\* ------------------------------------------------------------ laser_merge
\* std::vector<SCAN_POINT_t> points; declared inside the loop body.
StalePoints(old) == old

FreshPoints(old) == << >>

\* The loop condition and the declaration of the accumulator.
LoopTest ==
    /\ pc = "idle"
    /\ IF ok /\ alive_
       THEN /\ pc' = "lock"
            /\ points' = FreshPoints(points)
       ELSE /\ pc' = "exit"
            /\ UNCHANGED points
    /\ UNCHANGED << config, node, buffers, nodeMutex_, cb, ok, alive_, todo, conv, outputs, history >>

\* std::lock_guard<std::mutex> lock(nodeMutex_) and the start of the first loop.
Lock ==
    /\ pc = "lock"
    /\ nodeMutex_ = "free"
    /\ nodeMutex_' = "merge"
    /\ pc' = "scans"
    /\ todo' = Populated(scanBuffer)
    /\ UNCHANGED << config, node, buffers, cb, ok, alive_, conv, points, outputs, history >>

\* The iteration reaches an entry of scanBuffer and calls scantoPointXYZ.
ScanBegin ==
    /\ pc = "scans" /\ conv = << >>
    /\ \E f \in todo : conv' = << f >>
    /\ UNCHANGED << config, node, buffers, nodeMutex_, cb, ok, alive_, pc, todo, points,
                    outputs, history >>

Record(src) == IF observe THEN Append(sources, src) ELSE sources

\* scantoPointXYZ returns and its points are appended.
ScanEnd ==
    /\ pc = "scans" /\ conv # << >>
    /\ \E available \in BOOLEAN :
         LET scan == scanBuffer[conv[1]][1]
             scanPoints == scantoPointXYZ(scan, lookupTransform(scan.frame_id, available))
         IN  /\ points' = points \o scanPoints
             /\ gathered' = (gathered \/ scanPoints # << >>)
             /\ visited' = TRUE
             /\ sources' = Record([kind |-> "scan", msg |-> scan, available |-> available])
    /\ converted' = [converted EXCEPT !.scan[conv[1]] = @ + 1]
    /\ todo' = todo \ {conv[1]}
    /\ conv' = << >>
    /\ UNCHANGED << config, node, buffers, nodeMutex_, cb, ok, alive_, pc, outputs >>

\* scanBuffer.clear() and the start of the second loop.
ScansDone ==
    /\ pc = "scans" /\ conv = << >> /\ todo = {}
    /\ scanBuffer' = EmptySlots(ScanFrames)
    /\ lastScan' = EmptySlots(ScanFrames)
    /\ converted' = [converted EXCEPT !.scan = NotConverted.scan]
    /\ pc' = "clouds"
    /\ todo' = Populated(pointCloudBuffer)
    /\ UNCHANGED << config, node, pointCloudBuffer, lastCloud, laserTime, replaced, nodeMutex_, cb,
                    ok, alive_, conv, points, outputs, gathered, visited, sources >>

\* The iteration reaches an entry of pointCloudBuffer and calls pointCloudtoPointXYZ.
CloudBegin ==
    /\ pc = "clouds" /\ conv = << >>
    /\ \E f \in todo : conv' = << f >>
    /\ UNCHANGED << config, node, buffers, nodeMutex_, cb, ok, alive_, pc, todo, points,
                    outputs, history >>

\* pointCloudtoPointXYZ returns and its points are appended.
CloudEnd ==
    /\ pc = "clouds" /\ conv # << >>
    /\ \E available \in BOOLEAN :
         LET cloud == pointCloudBuffer[conv[1]][1]
             cloudPoints == pointCloudtoPointXYZ(cloud, lookupTransform(cloud.frame_id, available))
         IN  /\ points' = points \o cloudPoints
             /\ gathered' = (gathered \/ cloudPoints # << >>)
             /\ visited' = TRUE
             /\ sources' = Record([kind |-> "cloud", msg |-> cloud, available |-> available])
    /\ converted' = [converted EXCEPT !.cloud[conv[1]] = @ + 1]
    /\ todo' = todo \ {conv[1]}
    /\ conv' = << >>
    /\ UNCHANGED << config, node, buffers, nodeMutex_, cb, ok, alive_, pc, outputs >>

\* pointCloudBuffer.clear(), the end of the lock's scope and the test of
\* points.empty().
Unlock ==
    /\ pc = "clouds" /\ conv = << >> /\ todo = {}
    /\ pointCloudBuffer' = EmptySlots(CloudFrames)
    /\ lastCloud' = EmptySlots(CloudFrames)
    /\ replaced' = FALSE
    /\ converted' = [converted EXCEPT !.cloud = NotConverted.cloud]
    /\ nodeMutex_' = "free"
    /\ pc' = IF points # << >> THEN "pubcloud" ELSE "sleep"
    /\ UNCHANGED << config, node, scanBuffer, lastScan, laserTime, cb, ok, alive_, todo, conv,
                    points, outputs, gathered, visited, sources >>

\* ConvertPointCloud2(points): an exception that escapes the thread ends
\* the process (std::terminate).
PubCloud ==
    /\ pc = "pubcloud"
    /\ LET r == ConvertPointCloud2(points, laserTime)
       IN  /\ cloudOut' = cloudOut \o r.published
           /\ fault' = r.fault
           /\ pc' = IF r.fault = "none" THEN "pubscan" ELSE "dead"
    /\ UNCHANGED << config, node, buffers, nodeMutex_, cb, ok, alive_, todo, conv, points,
                    scanOut, history >>

\* ConvertLaserScan(points).
PubScan ==
    /\ pc = "pubscan"
    /\ \E ub \in {"crash", "stray"} :
         LET r == ConvertLaserScan(points, laserTime, cfg, ub)
         IN  /\ scanOut' = scanOut \o r.published
             /\ fault' = r.fault
             /\ pc' = IF r.fault = "none" THEN "sleep" ELSE "dead"
    /\ UNCHANGED << config, node, buffers, nodeMutex_, cb, ok, alive_, todo, conv, points,
                    cloudOut, history >>

\* rosRate->sleep() and the end of the loop body; the history of the
\* iteration ends with it.
Sleep ==
    /\ pc = "sleep"
    /\ pc' = "idle"
    /\ cloudOut' = << >>
    /\ scanOut' = << >>
    /\ gathered' = FALSE
    /\ visited' = FALSE
    /\ sources' = << >>
    /\ UNCHANGED << config, node, buffers, nodeMutex_, cb, ok, alive_, todo, conv, points, fault,
                    converted >>

Merge ==
    \/ LoopTest
    \/ Lock
    \/ ScanBegin
    \/ ScanEnd
    \/ ScansDone
    \/ CloudBegin
    \/ CloudEnd
    \/ Unlock
    \/ PubCloud
    \/ PubScan
    \/ Sleep

Next ==
    \/ \E m \in SensorScanMsgs : Arrive("scan", m)
    \/ \E m \in CloudMsgs : Arrive("cloud", m)
    \/ scanCallback
    \/ pointCloudCallback
    \/ Shutdown
    \/ Merge

Spec == Init /\ [][Next]_vars

\* ------------------------------------------------------------ one iteration
\* Messages of any content, for the specifications of a single iteration.
AnyScanBodies ==
    { [ranges |-> << 100 >>, intensities |-> << 7 >>],
      [ranges |-> << 100 >>, intensities |-> << >>],
      [ranges |-> << 6 >>, intensities |-> << 7 >>],
      [ranges |-> << 3000 >>, intensities |-> << >>],
      [ranges |-> << 400, 149 >>, intensities |-> << 7, 8 >>],
      [ranges |-> << 400, 149 >>, intensities |-> << 7 >>] }

AnyCloudBodies ==
    { [fields |-> {"x", "y", "z", "intensity"},
       data |-> << [x |-> -200, y |-> -150, z |-> 0, i |-> 9] >>],
      [fields |-> {"x", "y", "z"},
       data |-> << [x |-> 0, y |-> -150, z |-> 0, i |-> 0] >>],
      [fields |-> {"x", "y", "z", "intensity"}, data |-> << >>] }

SlotsOf(frames, msgs) ==
    { b \in [frames -> {<< >>} \cup { << m >> : m \in msgs }] :
        \A f \in frames : b[f] # << >> => b[f][1].frame_id = f }

\* The fusion thread at the top of its loop, the buffers as any sequence
\* of arrivals may have left them; no callback runs during the iteration.
InitCycle ==
    /\ InitCommon
    /\ cfg \in Configs
    /\ observe = TRUE
    /\ scanBuffer \in SlotsOf(ScanFrames,
          { LaserScan(f, 1, b.ranges, b.intensities) : f \in ScanFrames, b \in AnyScanBodies })
    /\ pointCloudBuffer \in SlotsOf(CloudFrames,
          { PointCloud2(f, 1, b.fields, b.data) : f \in CloudFrames, b \in AnyCloudBodies })
    /\ lastScan = scanBuffer
    /\ lastCloud = pointCloudBuffer
    /\ laserTime = 1
    /\ pc = "idle"

SpecCycle == InitCycle /\ [][Merge]_vars

\* ------------------------------------------------------------ scan conversion alone
RangeSamples == {5, 6, 100, 3000, 5000}

RangeArrays == UNION { [1..n -> RangeSamples] : n \in 0..MaxSamples }

\* The fusion thread holds the lock and is about to convert the scan of
\* frame A, a scan of any ranges with or without intensities.
InitScan ==
    /\ InitCommon
    /\ cfg = Wide
    /\ observe = TRUE
    /\ \E r \in RangeArrays, withIntensity \in BOOLEAN :
         scanBuffer = [EmptySlots(ScanFrames) EXCEPT
                         !["A"] = << LaserScan("A", 1, r,
                                               IF withIntensity THEN [k \in 1..Len(r) |-> 7]
                                               ELSE << >>) >>]
    /\ pointCloudBuffer = EmptySlots(CloudFrames)
    /\ lastScan = scanBuffer
    /\ lastCloud = pointCloudBuffer
    /\ laserTime = 1
    /\ pc = "lock"

ScanNext == Lock \/ ScanBegin \/ ScanEnd

SpecScan == InitScan /\ [][ScanNext]_vars

\* ------------------------------------------------------------ projections alone
Positions ==
    { << 400, 0 >>, << 200, 150 >>, << 0, 150 >>, << -100, 0 >>, << 5, 0 >> }

PointPool ==
    { ScanPoint(p[1], p[2], 0, i) : p \in Positions, i \in { << >>, << 7 >>, << 8 >> } }

PointLists == UNION { [1..n -> PointPool] : n \in 1..MaxPoints }

\* The fusion thread has released the lock with any non-empty accumulator
\* and is about to publish.
InitProj ==
    /\ nodeMutex_ = "free"
    /\ cb = << >>
    /\ ok = TRUE
    /\ alive_ = TRUE
    /\ todo = {}
    /\ conv = << >>
    /\ points \in PointLists
    /\ fault = "none"
    /\ cloudOut = << >>
    /\ scanOut = << >>
    /\ gathered = TRUE
    /\ visited = FALSE
    /\ replaced = FALSE
    /\ sources = << >>
    /\ converted = NotConverted
    /\ topics = DefaultTopics
    /\ subs = [laser_sub |-> Subscribe(topics.scan_topics),
               point_cloud_sub |-> Subscribe(topics.point_cloud_topics)]
    /\ life = "running"
    /\ cfg \in Configs
    /\ observe = TRUE
    /\ scanBuffer = EmptySlots(ScanFrames)
    /\ pointCloudBuffer = EmptySlots(CloudFrames)
    /\ lastScan = scanBuffer
    /\ lastCloud = pointCloudBuffer
    /\ laserTime = 1
    /\ pc = "pubcloud"

ProjNext == PubCloud \/ PubScan

SpecProj == InitProj /\ [][ProjNext]_vars

\* ------------------------------------------------------------ construction
TopicNames == {"", "/sick_s30b/laser/scan0", "/sick_s30b/laser/points0"}

TopicLists == UNION { [1..n -> TopicNames] : n \in 0..MaxTopics }

\* The constructor from its subscription loops on: it subscribes, then
\* throws std::runtime_error when it holds no subscription, and starts the
\* fusion thread otherwise.
Construct ==
    /\ life = "constructing"
    /\ LET laser_sub == Subscribe(topics.scan_topics)
           point_cloud_sub == Subscribe(topics.point_cloud_topics)
       IN  /\ subs' = [laser_sub |-> laser_sub, point_cloud_sub |-> point_cloud_sub]
           /\ IF laser_sub = << >> /\ point_cloud_sub = << >>
              THEN life' = "failed" /\ pc' = "unstarted"
              ELSE life' = "running" /\ pc' = "idle"
    /\ UNCHANGED << config, topics, buffers, nodeMutex_, cb, ok, alive_, todo, conv, points,
                    outputs, history >>

\* The node before the subscription loops of its constructor, with any
\* two lists of topic names.
InitNode ==
    /\ nodeMutex_ = "free"
    /\ cb = << >>
    /\ ok = TRUE
    /\ alive_ = TRUE
    /\ todo = {}
    /\ conv = << >>
    /\ points = << >>
    /\ fault = "none"
    /\ cloudOut = << >>
    /\ scanOut = << >>
    /\ gathered = FALSE
    /\ visited = FALSE
    /\ replaced = FALSE
    /\ sources = << >>
    /\ converted = NotConverted
    /\ topics \in [scan_topics : TopicLists, point_cloud_topics : TopicLists]
    /\ subs = [laser_sub |-> << >>, point_cloud_sub |-> << >>]
    /\ life = "constructing"
    /\ cfg = Wide
    /\ observe = FALSE
    /\ scanBuffer = EmptySlots(ScanFrames)
    /\ pointCloudBuffer = EmptySlots(CloudFrames)
    /\ lastScan = scanBuffer
    /\ lastCloud = pointCloudBuffer
    /\ laserTime = 0
    /\ pc = "unstarted"

\* The constructor, then the fusion thread over buffers that stay empty.
InitNext == Construct \/ LoopTest \/ Lock \/ ScansDone \/ Unlock \/ Sleep

SpecInit == InitNode /\ [][InitNext]_vars

\* ------------------------------------------------------------ destruction
\* The destructor reaches subscription_listener_thread_.join().
Destroy ==
    /\ life = "running"
    /\ pc # "dead"
    /\ life' = "joining"
    /\ UNCHANGED << config, topics, subs, buffers, nodeMutex_, cb, ok, alive_, pc, todo, conv,
                    points, outputs, history >>

\* join() returns once laser_merge has returned; then alive_.store(true).
Join ==
    /\ life = "joining"
    /\ pc = "exit"
    /\ life' = "destroyed"
    /\ alive_' = TRUE
    /\ UNCHANGED << config, topics, subs, buffers, nodeMutex_, cb, ok, pc, todo, conv,
                    points, outputs, history >>

\* The node after its constructor, as in Init.
InitLife ==
    /\ InitCommon
    /\ cfg = Wide
    /\ observe = FALSE
    /\ scanBuffer = EmptySlots(ScanFrames)
    /\ pointCloudBuffer = EmptySlots(CloudFrames)
    /\ lastScan = scanBuffer
    /\ lastCloud = pointCloudBuffer
    /\ laserTime = 0
    /\ pc = "idle"

LifeNext ==
    \/ \E m \in { n \in SensorScanMsgs : n.frame_id = "A" /\ n.stamp = 1 } : Arrive("scan", m)
    \/ \E m \in { n \in CloudMsgs : n.stamp = 1 } : Arrive("cloud", m)
    \/ scanCallback
    \/ pointCloudCallback
    \/ Shutdown
    \/ Destroy
    \/ Join
    \/ Merge

\* The fusion thread is scheduled as long as it can take a step, and
\* join() returns when the thread has ended.
SpecLife == InitLife /\ [][LifeNext]_vars /\ WF_vars(Merge) /\ WF_vars(Join)

\* ============================================================ claims
IterationOver == pc \in {"sleep", "dead"}

\* The points one recorded source contributes to the accumulator.
PointsOfSource(src) ==
    IF src.kind = "scan"
    THEN scantoPointXYZ(src.msg, lookupTransform(src.msg.frame_id, src.available))
    ELSE pointCloudtoPointXYZ(src.msg, lookupTransform(src.msg.frame_id, src.available))

\* The iteration drained two sources, the lookup of a scan failed and the
\* other source was transformed.
OneFailedOfTwo ==
    /\ Len(sources) = 2
    /\ \E i \in 1..2 : /\ sources[i].kind = "scan"
                       /\ ~sources[i].available
                       /\ sources[3 - i].available

TransformedSource ==
    sources[CHOOSE i \in 1..2 : sources[i].available]

\* C1 as stated: with two sources buffered and the lookup of one scan
\* failing, the iteration publishes a cloud whose points are exactly those
\* of the other source.
C1_AlwaysPublishesOther ==
    (IterationOver /\ OneFailedOfTwo) =>
        /\ Len(cloudOut) = 1
        /\ cloudOut[1].data = PointsOfSource(TransformedSource)

\* C1 amended: with two sources buffered and the lookup of one scan
\* failing, the iteration publishes exactly the points of the other source
\* when that source yields a point, and publishes nothing when it yields
\* none.
C1_PublishesOtherIfAny ==
    (IterationOver /\ OneFailedOfTwo) =>
        IF PointsOfSource(TransformedSource) = << >>
        THEN cloudOut = << >> /\ scanOut = << >>
        ELSE /\ Len(cloudOut) = 1
             /\ cloudOut[1].data = PointsOfSource(TransformedSource)

C1_Witness ==
    /\ pc = "sleep"
    /\ OneFailedOfTwo
    /\ Len(cloudOut) = 1 /\ Len(scanOut) = 1
    /\ cloudOut[1].data = PointsOfSource(TransformedSource)
    /\ cloudOut[1].data # << >>

\* C2: an iteration whose conversions returned no point publishes neither
\* a cloud nor a scan, and calls neither projection.
C2_NoPointsNoOutput ==
    ~gathered => /\ cloudOut = << >>
                 /\ scanOut = << >>
                 /\ pc \notin {"pubcloud", "pubscan", "dead"}

C2_Witness ==
    /\ pc = "sleep"
    /\ visited /\ ~gathered
    /\ cloudOut = << >> /\ scanOut = << >>

\* C3: each buffer holds at most one message per frame, filed under its
\* own frame, and it is the last one received for that frame since the
\* buffer was cleared.
C3_LatestPerFrame ==
    /\ \A f \in ScanFrames :
         /\ Len(scanBuffer[f]) <= 1
         /\ scanBuffer[f] = lastScan[f]
         /\ scanBuffer[f] # << >> => scanBuffer[f][1].frame_id = f
    /\ \A f \in CloudFrames :
         /\ Len(pointCloudBuffer[f]) <= 1
         /\ pointCloudBuffer[f] = lastCloud[f]
         /\ pointCloudBuffer[f] # << >> => pointCloudBuffer[f][1].frame_id = f

C3_Witness ==
    /\ replaced
    /\ scanBuffer["A"] # << >> /\ scanBuffer["A"][1].stamp = 1
    /\ scanBuffer["B"] = << >>
    /\ pointCloudBuffer["C"] = << >>

\* C4 as stated: no callback waits for the lock while the fusion thread is
\* inside a conversion (a transform lookup included).
C4_NoCallbackWaitsOnConversion ==
    ~(cb # << >> /\ conv # << >>)

\* C5 as stated: the cloud and the scan of one iteration carry the same
\* stamp.
C5_OneStampPerCycle ==
    (cloudOut # << >> /\ scanOut # << >>) => cloudOut[1].stamp = scanOut[1].stamp

\* C6 as stated: no exception escapes the fusion thread.
C6_NoExceptionEscapes ==
    fault # "bad_optional_access"

\* C7: in a published scan, every bin that in-gate points map to holds the
\* least of their ranges, and the same points processed in reverse order
\* give the same range array.
PointRange(p) == Hypot(p.x, p.y)

PointAngle(p) == Atan2(p.y, p.x)

InGate(p) == ~OutOfGate(cfg, PointRange(p), PointAngle(p))

BinPoints(k) ==
    { i \in 1..Len(points) : InGate(points[i]) /\ BinIndex(cfg, PointAngle(points[i])) + 1 = k }

Least(S) == CHOOSE m \in S : \A n \in S : m <= n

Reverse(seq) == [i \in 1..Len(seq) |-> seq[Len(seq) + 1 - i]]

C7_BinMinimumAnyOrder ==
    (pc = "sleep" /\ scanOut # << >>) =>
        /\ \A k \in 1..Len(scanOut[1].ranges) :
             BinPoints(k) # {} =>
                 scanOut[1].ranges[k] = Least({ PointRange(points[i]) : i \in BinPoints(k) })
        /\ LET r == ConvertLaserScan(Reverse(points), laserTime, cfg, "stray")
           IN  r.fault = "none" => r.published[1].ranges = scanOut[1].ranges

C7_Witness ==
    /\ pc = "sleep" /\ scanOut # << >>
    /\ Len(points) = 2
    /\ PointRange(points[1]) = 250 /\ PointRange(points[2]) = 400
    /\ \E k \in 1..Len(scanOut[1].ranges) :
         BinPoints(k) = {1, 2} /\ scanOut[1].ranges[k] = 250

\* C8 as stated: an iteration publishes a cloud and a scan together or
\* neither, and at most one of each.
C8_CloudAndScanTogether ==
    IterationOver => Len(cloudOut) = Len(scanOut) /\ Len(cloudOut) <= 1

\* C9 as stated: a point whose angle is exactly max_angle changes no bin:
\* every bin holds what the other points alone give it.
NotAtMax(k) ==
    { i \in BinPoints(k) : PointAngle(points[i]) # cfg.max_angle }

C9_AngleMaxExcluded ==
    (pc = "sleep" /\ scanOut # << >>) =>
        \A k \in 1..Len(scanOut[1].ranges) :
            scanOut[1].ranges[k] =
                Least({FillValue(cfg)} \cup { PointRange(points[i]) : i \in NotAtMax(k) })

\* C10: the conversion of a scan whose transform is found yields one
\* point per sample with range_min < range < range_max, in sample order,
\* and none for any other sample.
Measured(scan) ==
    { i \in 1..Len(scan.ranges) :
        scan.range_min < scan.ranges[i] /\ scan.ranges[i] < scan.range_max }

\* The point of sample i of a scan of frame A, whose transform is the
\* identity: the ray of length ranges[i] at its bearing.
RayPoint(scan, i) ==
    LET bearing == scan.angle_min + (i - 1) * scan.angle_increment
    IN  ScanPoint(scan.ranges[i] * Cos(bearing), scan.ranges[i] * Sin(bearing), 0,
                  IF Len(scan.intensities) = Len(scan.ranges)
                  THEN << scan.intensities[i] >> ELSE << >>)

Converted == pc = "scans" /\ conv = << >> /\ Len(sources) = 1 /\ sources[1].available

C10_PointIffStrictlyInside ==
    Converted =>
        LET scan == sources[1].msg
            IsMeasured(i) == i \in Measured(scan)
            kept == SelectSeq([i \in 1..Len(scan.ranges) |-> i], IsMeasured)
        IN  /\ Len(points) = Cardinality(Measured(scan))
            /\ \A j \in 1..Len(kept) : points[j] = RayPoint(scan, kept[j])

C10_Witness ==
    /\ Converted
    /\ sources[1].msg.ranges = << 100, 5000, 5 >>
    /\ Len(points) = 1
    /\ points[1].x = 0 /\ points[1].y = -100

\* C11 as stated: a bin's intensity is overwritten only by a point that
\* strictly lowers the bin's range, so every bin that in-gate points map to
\* publishes the intensity of the earliest processed point that attains
\* the bin's least range.
EarliestLeast(k) ==
    Least({ i \in BinPoints(k) :
              PointRange(points[i]) = Least({ PointRange(points[j]) : j \in BinPoints(k) }) })

C11_IntensityOfEarliestMinimum ==
    (pc = "sleep" /\ scanOut # << >> /\ scanOut[1].intensities # << >>) =>
        \A k \in 1..Len(scanOut[1].intensities) :
            BinPoints(k) # {} =>
                scanOut[1].intensities[k] = points[EarliestLeast(k)].intensity[1]

\* C12 as stated: once shutdown is signalled (the context stops being ok,
\* or the destructor runs), the fusion loop ends and the destructor's join
\* returns.
C12_ShutdownEndsLoop ==
    /\ (~ok \/ life = "joining") ~> (pc = "exit")
    /\ (life = "joining") ~> (life = "destroyed")

\* C13: the constructor fails exactly when neither list names a topic
\* (both are empty or hold only empty names); when it fails the fusion
\* thread is never started, and when it succeeds the thread is started.
NoTopic ==
    /\ \A i \in DOMAIN topics.scan_topics : topics.scan_topics[i] = ""
    /\ \A i \in DOMAIN topics.point_cloud_topics : topics.point_cloud_topics[i] = ""

C13_FailsIffNoTopic ==
    life # "constructing" =>
        /\ (life = "failed") <=> NoTopic
        /\ life = "failed" => pc = "unstarted"
        /\ life = "running" => pc # "unstarted"

C13_Witness ==
    /\ life = "failed"
    /\ pc = "unstarted"
    /\ topics.scan_topics = << "", "" >>
    /\ topics.point_cloud_topics = << "" >>

\* C14: under every interleaving of callbacks and iterations, a message in
\* a slot is converted at most once and only under the lock of the
\* iteration that clears it; a slot is emptied only after its message has
\* been converted; a message is replaced only by the message a callback of
\* its kind received for its frame; and both buffers are empty when the
\* iteration releases the lock.
Slot(kind) == IF kind = "scan" THEN scanBuffer ELSE pointCloudBuffer

C14_Step ==
    \A kind \in {"scan", "cloud"} : \A f \in DOMAIN Slot(kind) :
        /\ converted'[kind][f] <= 1
        /\ converted'[kind][f] = 1 => (Slot(kind)'[f] # << >> /\ nodeMutex_' = "merge")
        /\ (Slot(kind)[f] # << >> /\ Slot(kind)'[f] = << >>) => converted[kind][f] = 1
        /\ (Slot(kind)[f] # << >> /\ Slot(kind)'[f] # << >> /\ converted'[kind][f] # converted[kind][f] + 1) =>
               \/ Slot(kind)'[f] = Slot(kind)[f] /\ converted'[kind][f] = converted[kind][f]
               \/ /\ cb # << >> /\ cb[1].kind = kind /\ cb[1].msg.frame_id = f
                  /\ Slot(kind)'[f] = << cb[1].msg >>
                  /\ converted[kind][f] = 0
        /\ (nodeMutex_ = "merge" /\ nodeMutex_' = "free") => Slot(kind)'[f] = << >>

C14_ConvertedExactlyOnce == [][C14_Step]_vars

C14_Witness ==
    /\ pc = "sleep"
    /\ visited /\ ~gathered
    /\ converted = NotConverted
    /\ scanBuffer = EmptySlots(ScanFrames)
    /\ pointCloudBuffer = EmptySlots(CloudFrames)
    /\ nodeMutex_ = "free"
    /\ cb # << >>

\* C15: a callback that stores a message sets the fusion timestamp to that
\* message's stamp, older or not, and no other step changes it: after any
\* sequence of arrivals laserTime is the stamp of the last message received.
C15_LastReceivedStamp ==
    [][IF cb # << >> /\ cb' = << >>
       THEN laserTime' = cb[1].msg.stamp
       ELSE laserTime' = laserTime]_vars

\* A message stamped 2 was received for frame A, then one stamped 1 for
\* frame B.
C15_Witness ==
    /\ lastScan["A"] # << >> /\ lastScan["A"][1].stamp = 2
    /\ lastScan["B"] # << >> /\ lastScan["B"][1].stamp = 1
    /\ lastCloud["C"] = << >>
    /\ laserTime = 1

\* C16 as stated: a published scan carries an intensities array, one entry
\* per bin, whenever some fused point of the iteration carries intensity,
\* wherever that point stands in the accumulator.
C16_IntensitiesIfAnyPoint ==
    (pc = "sleep" /\ scanOut # << >> /\ \E i \in 1..Len(points) : points[i].intensity # << >>) =>
        Len(scanOut[1].intensities) = Len(scanOut[1].ranges)

\* C17: every entry of a published range array is the fill value or lies
\* in [min_range, max_range]; a bin no in-gate point maps to holds the fill
\* value; and the array is the one the in-gate points alone give, so a
\* point with range < min_range or range > max_range changes no bin.
InRangeOnly == SelectSeq(points, LAMBDA p : cfg.min_range <= PointRange(p) /\ PointRange(p) <= cfg.max_range)

C17_FillOrWithinRange ==
    (pc = "sleep" /\ scanOut # << >>) =>
        /\ \A k \in 1..Len(scanOut[1].ranges) :
             /\ \/ scanOut[1].ranges[k] = FillValue(cfg)
                \/ cfg.min_range <= scanOut[1].ranges[k] /\ scanOut[1].ranges[k] <= cfg.max_range
             /\ BinPoints(k) = {} => scanOut[1].ranges[k] = FillValue(cfg)
        /\ Len(scanOut[1].ranges) = RangesSize(cfg)
        /\ InRangeOnly # << >> =>
             LET r == ConvertLaserScan(InRangeOnly, laserTime, cfg, "stray")
             IN  r.fault = "none" => r.published[1].ranges = scanOut[1].ranges
        /\ InRangeOnly = << >> =>
             \A k \in 1..Len(scanOut[1].ranges) : scanOut[1].ranges[k] = FillValue(cfg)

\* A point below min_range and a point above max_range leave every bin at
\* the fill value.
C17_Witness ==
    /\ pc = "sleep" /\ scanOut # << >>
    /\ Len(points) = 2
    /\ PointRange(points[1]) < cfg.min_range
    /\ PointRange(points[2]) > cfg.max_range
    /\ \A k \in 1..Len(scanOut[1].ranges) : scanOut[1].ranges[k] = FillValue(cfg)

\* C18 as stated: every point that passes the gate of ConvertLaserScan gets
\* a bin index within 0 .. bin count - 1, and no access to the arrays is
\* out of bounds.
C18_IndexInBounds ==
    /\ fault # "out_of_bounds"
    /\ pc \in {"pubscan", "sleep"} =>
         \A i \in 1..Len(points) :
             InGate(points[i]) =>
                 /\ 0 <= BinIndex(cfg, PointAngle(points[i]))
                 /\ BinIndex(cfg, PointAngle(points[i])) < RangesSize(cfg)

====
